---- MODULE Spec2Model ----
(***************************************************************************)
(* Model of the concept exporter's dependency-ordering pipeline            *)
(* (concepts/src/concept_csv_export.py): main() narrows the collection to  *)
(* the tree below set_name, checks it for reference cycles, pushes         *)
(* referring concepts below their referents, filters excludes and writes.  *)
(* LegacySpec is the main of the older script (concept_csv_export.py at    *)
(* the top of the source tree), which hands the loaded collection straight *)
(* to the same orderer; RepeatSpec is a caller that calls detect_cycles    *)
(* more than once on one collection.                                       *)
(*                                                                         *)
(* A concept is a record [key, Members, Answers].  key is the value of the *)
(* column get_key() selects.  A ';'-joined field is held as the sequence   *)
(* of its parts, the empty string "" being the empty sequence; Split gives *)
(* what str.split(";") gives, the [""] of an empty field included.  Keys   *)
(* are one-character names, as in the test suite, so a joined cycle string *)
(* is the sequence of its keys and separators and Python's substring test  *)
(* is the contiguous-subsequence test on it.                               *)
(*                                                                         *)
(* Ranks are Python floats i, i + 0.5, ...: every value is a multiple of   *)
(* 0.5 and exact in binary floating point, so a rank r is held as the      *)
(* integer 2*r (float(i) is 2*i, "+ 0.5" is "+ 1").                        *)
(***************************************************************************)
EXTENDS Integers, Sequences, FiniteSets, TLC

\* ---------------------------------------------------------------- bounds
\* Largest enumerated collection.
MaxRecords == 3
\* Most referent entries (keys listed in Members and Answers fields) the
\* concepts of an enumerated collection hold together.
MaxEdges == 4
\* Passes of the orderer's while loop the model follows before it stops
\* following the loop (the loop itself has no limit).
MaxPasses == 8

\* ------------------------------------------------------------ input space
KeyNames == <<"a", "b", "c", "d", "e", "f">>

\* Separator token of a joined cycle string (" --> ").
Arrow == " --> "

Keys(n) == {KeyNames[i] : i \in 1..n}

Range(s) == {s[i] : i \in 1..Len(s)}

\* The ways n concepts can list at most e referent entries together: one
\* sequence of keys (members + answers) for each concept.
RECURSIVE ReferantLists(_, _)
ReferantLists(n, e) ==
    IF n = 0
       THEN {<<>>}
       ELSE UNION {{Append(rest, r) : rest \in ReferantLists(n - 1, e - m),
                                       r \in [1..m -> Keys(MaxRecords)]} : m \in 0..e}

\* Every collection of 1..MaxRecords concepts with pairwise distinct keys and
\* at most MaxEdges referent entries.  The concept at position i carries the
\* i-th name: the operations compare keys only for equality, so every order
\* of every graph is one of these up to renaming.  A referent naming a key
\* beyond the collection's length has no record (a dangling reference).  The
\* operations read a concept's two fields only as members + answers, so the
\* entries of a concept are split one way: the first half (rounded up) is its
\* Members field and the rest its Answers field; the test collections add
\* concepts with an empty Members and a filled Answers field.
EnumCollections ==
    UNION {{[i \in 1..n |->
               [key |-> KeyNames[i],
                Members |-> SubSeq(f[i], 1, (Len(f[i]) + 1) \div 2),
                Answers |-> SubSeq(f[i], (Len(f[i]) + 1) \div 2 + 1, Len(f[i]))]] :
              f \in ReferantLists(n, MaxEdges)} : n \in 1..MaxRecords}

\* The collection of test_move_referring_concepts_down and
\* test_get_all_concepts_in_tree.
TestTree ==
    << [key |-> "a", Answers |-> <<>>, Members |-> <<"b", "c">>],
       [key |-> "b", Answers |-> <<>>, Members |-> <<"d", "e">>],
       [key |-> "c", Answers |-> <<"d", "e">>, Members |-> <<>>],
       [key |-> "d", Answers |-> <<>>, Members |-> <<>>],
       [key |-> "e", Answers |-> <<>>, Members |-> <<>>] >>

\* The collection of test_detect_cycles.
TestCycle ==
    << [key |-> "a", Answers |-> <<>>, Members |-> <<"b", "c">>],
       [key |-> "b", Answers |-> <<>>, Members |-> <<>>],
       [key |-> "c", Answers |-> <<"d", "e">>, Members |-> <<>>],
       [key |-> "d", Answers |-> <<"e", "f">>, Members |-> <<>>],
       [key |-> "e", Answers |-> <<>>, Members |-> <<>>],
       [key |-> "f", Answers |-> <<"c", "e">>, Members |-> <<>>] >>

\* A diamond: a refers to b and c, both refer to d.
TestDiamond ==
    << [key |-> "a", Answers |-> <<>>, Members |-> <<"b", "c">>],
       [key |-> "b", Answers |-> <<>>, Members |-> <<"d">>],
       [key |-> "c", Answers |-> <<"d">>, Members |-> <<>>],
       [key |-> "d", Answers |-> <<>>, Members |-> <<>>] >>

Fixtures == {TestTree, TestCycle, TestDiamond}

\* ------------------------------------------------------------ pure helpers
\* field.split(";")
Split(field) == IF field = <<>> THEN <<"">> ELSE field

\* members + answers, in that order, "" not yet filtered.
MembersAndAnswers(concept) == Split(concept.Members) \o Split(concept.Answers)

\* [r for r in referants if r != ""]
Referants(concept) == SelectSeq(MembersAndAnswers(concept), LAMBDA r : r # "")

KeySet(cs) == {cs[i].key : i \in 1..Len(cs)}

\* {c[key]: c for c in concepts}: a later concept with the same key replaces
\* an earlier one.
ByName(cs) ==
    [k \in KeySet(cs) |->
        cs[CHOOSE i \in 1..Len(cs) :
              cs[i].key = k /\ \A j \in 1..Len(cs) : cs[j].key = k => j <= i]]

Max(S) == CHOOSE x \in S : \A y \in S : y <= x

\* Every sequence that lists each element of S once.
Perms(S) ==
    {p \in [1..Cardinality(S) -> S] : \A i, j \in 1..Cardinality(S) : p[i] = p[j] => i = j}

VARIABLES
    pc,                     \* where main (and the operation it called) stands;
                            \* it stays where an exception was raised
    all_concepts,           \* main: the collection as loaded
    set_name,               \* main: the root name, "" when none was given
    concepts,               \* main: the collection handed from stage to stage
    excludes,               \* main: the keys read from the exclude files
    error,                  \* the exception that ended the run, "" when none
    concept_names_to_add,   \* get_all_concepts_in_tree: the work queue
    concept_names_in_tree,  \* get_all_concepts_in_tree: the names added so far
    root_index,             \* detect_cycles: position of the next root concept
    visited,                \* detect_cycles.get_cycle: its default visited set
    this_branch,            \* detect_cycles.get_cycle: its default this_branch
    cycle_strings,          \* detect_cycles: the cycle strings collected
    order_concepts,         \* move_referring_concepts_down: its concepts argument
    concept_order,          \* move_referring_concepts_down: key -> rank (x 2)
    needs_more_ordering,    \* move_referring_concepts_down: the loop flag
    count,                  \* move_referring_concepts_down: passes made
    outfile,                \* the rows written to the output file
    outcomes                \* how the detect_cycles calls made so far have ended

vars == <<pc, all_concepts, set_name, excludes, outcomes, concepts, error, concept_names_to_add,
          concept_names_in_tree, root_index, visited, this_branch, cycle_strings,
          order_concepts, concept_order, needs_more_ordering, count, outfile>>

treeVars == <<concept_names_to_add, concept_names_in_tree>>
detectVars == <<root_index, visited, this_branch, cycle_strings>>
orderVars == <<order_concepts, concept_order, needs_more_ordering, count>>

Init ==
    /\ all_concepts \in EnumCollections \cup Fixtures
    /\ set_name \in Keys(MaxRecords) \cup KeySet(all_concepts) \cup {""}
    /\ pc = "main"
    /\ error = ""
    /\ concepts = <<>>
    /\ excludes = {}
    /\ concept_names_to_add = <<>>
    /\ concept_names_in_tree = {}
    /\ root_index = 1
    /\ visited = {}
    /\ this_branch = <<>>
    /\ cycle_strings = <<>>
    /\ order_concepts = <<>>
    /\ concept_order = <<>>
    /\ needs_more_ordering = FALSE
    /\ count = 0
    /\ outfile = <<>>
    /\ outcomes = <<>>

\* ------------------------------------------------- get_all_concepts_in_tree
\* main, lines 143-149: with a set_name the tree extraction starts (its queue
\* seeded with set_name), without one the whole collection goes on.
MainStart ==
    /\ pc = "main"
    /\ error = ""
    /\ IF set_name # ""
          THEN /\ pc' = "tree"
               /\ concept_names_to_add' = <<set_name>>
               /\ concept_names_in_tree' = {}
               /\ UNCHANGED concepts
          ELSE /\ pc' = "detect"
               /\ concepts' = all_concepts
               /\ UNCHANGED treeVars
    /\ UNCHANGED <<all_concepts, set_name, excludes, outcomes, error, detectVars, orderVars, outfile>>

\* Faulty variant of NamesToPut: only the members are queued.
NamesToPut_MembersOnly(concept, in_tree) ==
    SelectSeq(Split(concept.Members), LAMBDA name : name # "" /\ name \notin in_tree)

\* The names one loop iteration puts on the queue, in order: the members and
\* answers of the concept that are not "" and not yet in the tree.
NamesToPut(concept, in_tree) ==
    SelectSeq(MembersAndAnswers(concept), LAMBDA name : name # "" /\ name \notin in_tree)

\* Faulty variant of TreeStep: a name without a concept is passed over, the
\* loop goes on with the rest of the queue.
TreeStep_SkipMissing ==
    /\ pc = "tree"
    /\ error = ""
    /\ concept_names_to_add # <<>>
    /\ LET concept_name == Head(concept_names_to_add)
           in_tree == concept_names_in_tree \cup {concept_name}
       IN IF concept_name \in KeySet(all_concepts)
             THEN /\ concept_names_in_tree' = in_tree
                  /\ concept_names_to_add' =
                         Tail(concept_names_to_add)
                            \o NamesToPut(ByName(all_concepts)[concept_name], in_tree)
             ELSE /\ concept_names_in_tree' = concept_names_in_tree
                  /\ concept_names_to_add' = Tail(concept_names_to_add)
    /\ UNCHANGED <<pc, error>>
    /\ UNCHANGED <<all_concepts, set_name, excludes, outcomes, concepts, detectVars, orderVars, outfile>>

\* Faulty variant of TreeStep: a name taken off the queue that is already in
\* the tree is put back at the end of the queue.
TreeStep_Requeue ==
    /\ pc = "tree"
    /\ error = ""
    /\ concept_names_to_add # <<>>
    /\ LET concept_name == Head(concept_names_to_add)
           in_tree == concept_names_in_tree \cup {concept_name}
       IN /\ concept_names_in_tree' = in_tree
          /\ IF concept_name \in concept_names_in_tree
                THEN /\ concept_names_to_add' =
                            Append(Tail(concept_names_to_add), concept_name)
                     /\ UNCHANGED <<pc, error>>
             ELSE IF concept_name \in KeySet(all_concepts)
                THEN /\ concept_names_to_add' =
                            Tail(concept_names_to_add)
                               \o NamesToPut(ByName(all_concepts)[concept_name], in_tree)
                     /\ UNCHANGED <<pc, error>>
                ELSE /\ concept_names_to_add' = Tail(concept_names_to_add)
                     /\ error' = "KeyError"
                     /\ UNCHANGED pc
    /\ UNCHANGED <<all_concepts, set_name, excludes, outcomes, concepts, detectVars, orderVars, outfile>>

\* One iteration of the while loop that takes a name off the queue: the name
\* joins the tree, its concept is looked up (KeyError when it has none) and
\* its referents not yet in the tree are queued.
TreeStep ==
    /\ pc = "tree"
    /\ error = ""
    /\ concept_names_to_add # <<>>
    /\ LET concept_name == Head(concept_names_to_add)
           in_tree == concept_names_in_tree \cup {concept_name}
       IN /\ concept_names_in_tree' = in_tree
          /\ IF concept_name \in KeySet(all_concepts)
                THEN /\ concept_names_to_add' =
                            Tail(concept_names_to_add)
                               \o NamesToPut(ByName(all_concepts)[concept_name], in_tree)
                     /\ UNCHANGED <<pc, error>>
                ELSE /\ concept_names_to_add' = Tail(concept_names_to_add)
                     /\ error' = "KeyError"
                     /\ UNCHANGED pc
    /\ UNCHANGED <<all_concepts, set_name, excludes, outcomes, concepts, detectVars, orderVars, outfile>>

\* Faulty variant of TreeReturn: every concept of the collection is returned.
TreeReturn_All ==
    /\ pc = "tree"
    /\ error = ""
    /\ concept_names_to_add = <<>>
    /\ \E p \in Perms(KeySet(all_concepts)) :
          concepts' = [i \in 1..Len(p) |-> ByName(all_concepts)[p[i]]]
    /\ pc' = "detect"
    /\ UNCHANGED <<all_concepts, set_name, excludes, outcomes, error, treeVars, detectVars, orderVars, outfile>>

\* The iteration that finds the queue empty: the loop breaks and the concepts
\* of the names in the tree are returned, in the iteration order of a Python
\* set of strings, which differs from run to run (any order).
TreeReturn ==
    /\ pc = "tree"
    /\ error = ""
    /\ concept_names_to_add = <<>>
    /\ \E p \in Perms(concept_names_in_tree) :
          concepts' = [i \in 1..Len(p) |-> ByName(all_concepts)[p[i]]]
    /\ pc' = "detect"
    /\ UNCHANGED <<all_concepts, set_name, excludes, outcomes, error, treeVars, detectVars, orderVars, outfile>>

\* ------------------------------------------------------------ detect_cycles
\* this_branch.remove(k): the first occurrence of k goes.
RemoveFirst(branch, k) ==
    LET at == CHOOSE i \in 1..Len(branch) :
                  branch[i] = k /\ \A j \in 1..(i - 1) : branch[j] # k
    IN SubSeq(branch, 1, at - 1) \o SubSeq(branch, at + 1, Len(branch))

\* get_cycle(concept, visited, this_branch), with the two accumulators it
\* mutates returned beside its result: [ret, visited, this_branch, raised].
\* ret is the returned list, <<>> standing for None (both are falsy; a
\* returned this_branch is never empty).  raised is TRUE when the lookup of a
\* referent's concept raised KeyError, which ends every enclosing call.
\* get_cycle_for is the for loop over members + answers from position i on.
RECURSIVE get_cycle(_, _, _, _), get_cycle_for(_, _, _, _, _, _)
\* Faulty variant of get_cycle: a key met again counts as a cycle whenever
\* it is in visited, on the current branch or not.
get_cycle_VisitedIsCycle(by_name, k, vis, branch) ==
    IF k \in vis
       THEN [ret |-> branch, visited |-> vis, this_branch |-> branch, raised |-> FALSE]
       ELSE get_cycle_for(by_name, k, MembersAndAnswers(by_name[k]), 1,
                          vis \cup {k}, Append(branch, k))

\* Faulty variant of get_cycle: the visited test comes before the
\* this_branch test, so a key on the current branch is passed over.
get_cycle_VisitedFirst(by_name, k, vis, branch) ==
    IF k \in vis
       THEN [ret |-> <<>>, visited |-> vis, this_branch |-> branch, raised |-> FALSE]
    ELSE IF k \in Range(branch)
       THEN [ret |-> branch, visited |-> vis, this_branch |-> branch, raised |-> FALSE]
    ELSE get_cycle_for(by_name, k, MembersAndAnswers(by_name[k]), 1,
                       vis \cup {k}, Append(branch, k))

get_cycle(by_name, k, vis, branch) ==
    IF k \in Range(branch)
       THEN [ret |-> branch, visited |-> vis, this_branch |-> branch, raised |-> FALSE]
    ELSE IF k \in vis
       THEN [ret |-> <<>>, visited |-> vis, this_branch |-> branch, raised |-> FALSE]
    ELSE get_cycle_for(by_name, k, MembersAndAnswers(by_name[k]), 1,
                       vis \cup {k}, Append(branch, k))

\* Variant of get_cycle_for that takes the concept's key off this_branch also
\* when it returns a cycle, so a later root starts from an empty branch and
\* passes over what is in visited.
RECURSIVE get_cycle_for_Pop(_, _, _, _, _, _)
get_cycle_for_Pop(by_name, k, names, i, vis, branch) ==
    IF i > Len(names)
       THEN [ret |-> <<>>, visited |-> vis,
             this_branch |-> RemoveFirst(branch, k), raised |-> FALSE]
    ELSE IF names[i] = ""
       THEN get_cycle_for_Pop(by_name, k, names, i + 1, vis, branch)
    ELSE IF names[i] \notin DOMAIN by_name
       THEN [ret |-> <<>>, visited |-> vis, this_branch |-> branch, raised |-> TRUE]
    ELSE LET r == get_cycle(by_name, names[i], vis, branch)
         IN IF r.raised
               THEN r
            ELSE IF r.ret # <<>>
               THEN [ret |-> r.this_branch \o <<names[i]>>, visited |-> r.visited,
                     this_branch |-> RemoveFirst(r.this_branch, k), raised |-> FALSE]
            ELSE get_cycle_for_Pop(by_name, k, names, i + 1, r.visited, r.this_branch)

get_cycle_for(by_name, k, names, i, vis, branch) ==
    IF i > Len(names)
       THEN [ret |-> <<>>, visited |-> vis,
             this_branch |-> RemoveFirst(branch, k), raised |-> FALSE]
    ELSE IF names[i] = ""
       THEN get_cycle_for(by_name, k, names, i + 1, vis, branch)
    ELSE IF names[i] \notin DOMAIN by_name
       THEN [ret |-> <<>>, visited |-> vis, this_branch |-> branch, raised |-> TRUE]
    ELSE LET r == get_cycle(by_name, names[i], vis, branch)
         IN IF r.raised
               THEN r
            ELSE IF r.ret # <<>>
               THEN [ret |-> r.this_branch \o <<names[i]>>, visited |-> r.visited,
                     this_branch |-> r.this_branch, raised |-> FALSE]
            ELSE get_cycle_for(by_name, k, names, i + 1, r.visited, r.this_branch)

\* " --> ".join(cycle)
Join(cycle) ==
    [i \in 1..(IF cycle = <<>> THEN 0 ELSE 2 * Len(cycle) - 1) |->
        IF i % 2 = 1 THEN cycle[(i + 1) \div 2] ELSE Arrow]

\* s in t, for strings.
IsSubstring(s, t) ==
    \E at \in 0..(Len(t) - Len(s)) : \A i \in 1..Len(s) : t[at + i] = s[i]

\* The body of "for concept in concepts" for the concept at root_index:
\* get_cycle is called with its defaults, the one visited set and this_branch
\* list made when detect_cycles defined it, so what earlier roots left in
\* them is still there.  A cycle string that is no substring of a collected
\* one is collected.
DetectRoot ==
    /\ pc = "detect"
    /\ error = ""
    /\ root_index <= Len(concepts)
    /\ LET r == get_cycle(ByName(concepts), concepts[root_index].key, visited, this_branch)
           cycle_string == Join(r.ret)
       IN /\ visited' = r.visited
          /\ this_branch' = r.this_branch
          /\ IF r.raised
                THEN /\ error' = "KeyError"
                     /\ UNCHANGED <<pc, root_index, cycle_strings>>
                ELSE /\ root_index' = root_index + 1
                     /\ cycle_strings' =
                           IF /\ r.ret # <<>>
                              /\ \A n \in 1..Len(cycle_strings) :
                                    ~IsSubstring(cycle_string, cycle_strings[n])
                              THEN Append(cycle_strings, cycle_string)
                              ELSE cycle_strings
                     /\ UNCHANGED <<pc, error>>
    /\ UNCHANGED <<all_concepts, set_name, excludes, outcomes, concepts, treeVars, orderVars, outfile>>

\* Faulty variant of InitialOrder: the ranks count down from the end of the
\* list.
InitialOrder_Reversed(cs) ==
    [k \in KeySet(cs) |-> 2 * (Len(cs) - Max({i \in 1..Len(cs) : cs[i].key = k}))]

\* {c[key]: float(i) for i, c in enumerate(concepts)}, ranks doubled.
InitialOrder(cs) ==
    [k \in KeySet(cs) |-> 2 * (Max({i \in 1..Len(cs) : cs[i].key = k}) - 1)]

\* After the last root: any collected cycle string raises the exception that
\* lists them all; none lets main go on to call the orderer (line 152).
DetectEnd ==
    /\ pc = "detect"
    /\ error = ""
    /\ root_index > Len(concepts)
    /\ IF cycle_strings # <<>>
          THEN /\ error' = "Exception"
               /\ UNCHANGED <<pc, orderVars>>
          ELSE /\ pc' = "order"
               /\ order_concepts' = concepts
               /\ concept_order' = InitialOrder(concepts)
               /\ needs_more_ordering' = TRUE
               /\ count' = 0
               /\ UNCHANGED error
    /\ UNCHANGED <<all_concepts, set_name, excludes, outcomes, concepts, treeVars, detectVars, outfile>>

\* --------------------------------------------- move_referring_concepts_down
\* Faulty variant of OrderPassFrom: a bump does not set needs_more_ordering,
\* so the loop ends after its first pass.
RECURSIVE OrderPassFrom_NoRepeat(_, _, _, _)
OrderPassFrom_NoRepeat(cs, i, order, needs) ==
    IF i > Len(cs)
       THEN [order |-> order, needs |-> needs]
    ELSE LET referants == Referants(cs[i])
             ref_indices == {order[referants[j]] : j \in 1..Len(referants)}
         IN IF referants # <<>> /\ order[cs[i].key] <= Max(ref_indices)
               THEN OrderPassFrom_NoRepeat(cs, i + 1,
                        [order EXCEPT ![cs[i].key] = Max(ref_indices) + 1], needs)
               ELSE OrderPassFrom_NoRepeat(cs, i + 1, order, needs)

\* Faulty variant of OrderPassFrom: a concept is bumped only when its rank is
\* strictly below the highest rank of its referents ("<" for "<=").
RECURSIVE OrderPassFrom_Strict(_, _, _, _)
OrderPassFrom_Strict(cs, i, order, needs) ==
    IF i > Len(cs)
       THEN [order |-> order, needs |-> needs]
    ELSE LET referants == Referants(cs[i])
             ref_indices == {order[referants[j]] : j \in 1..Len(referants)}
         IN IF referants # <<>> /\ order[cs[i].key] < Max(ref_indices)
               THEN OrderPassFrom_Strict(cs, i + 1,
                        [order EXCEPT ![cs[i].key] = Max(ref_indices) + 1], TRUE)
               ELSE OrderPassFrom_Strict(cs, i + 1, order, needs)

\* Faulty variant of OrderPassFrom: the bump puts the concept at the highest
\* rank of its referents, not half a rank above it.
RECURSIVE OrderPassFrom_NoHalf(_, _, _, _)
OrderPassFrom_NoHalf(cs, i, order, needs) ==
    IF i > Len(cs)
       THEN [order |-> order, needs |-> needs]
    ELSE LET referants == Referants(cs[i])
             ref_indices == {order[referants[j]] : j \in 1..Len(referants)}
         IN IF referants # <<>> /\ order[cs[i].key] <= Max(ref_indices)
               THEN OrderPassFrom_NoHalf(cs, i + 1,
                        [order EXCEPT ![cs[i].key] = Max(ref_indices)], TRUE)
               ELSE OrderPassFrom_NoHalf(cs, i + 1, order, needs)

\* Faulty variant of OrderPassFrom: a bump lifts the concept half a rank
\* above its own rank, not above the highest rank of its referents.
RECURSIVE OrderPassFrom_StepUp(_, _, _, _)
OrderPassFrom_StepUp(cs, i, order, needs) ==
    IF i > Len(cs)
       THEN [order |-> order, needs |-> needs]
    ELSE LET referants == Referants(cs[i])
             ref_indices == {order[referants[j]] : j \in 1..Len(referants)}
         IN IF referants # <<>> /\ order[cs[i].key] <= Max(ref_indices)
               THEN OrderPassFrom_StepUp(cs, i + 1,
                        [order EXCEPT ![cs[i].key] = order[cs[i].key] + 1], TRUE)
               ELSE OrderPassFrom_StepUp(cs, i + 1, order, needs)

\* Faulty variant of OrderPassFrom: a bump puts the concept a whole rank
\* above the highest rank of its referents.
RECURSIVE OrderPassFrom_FullStep(_, _, _, _)
OrderPassFrom_FullStep(cs, i, order, needs) ==
    IF i > Len(cs)
       THEN [order |-> order, needs |-> needs]
    ELSE LET referants == Referants(cs[i])
             ref_indices == {order[referants[j]] : j \in 1..Len(referants)}
         IN IF referants # <<>> /\ order[cs[i].key] <= Max(ref_indices)
               THEN OrderPassFrom_FullStep(cs, i + 1,
                        [order EXCEPT ![cs[i].key] = Max(ref_indices) + 2], TRUE)
               ELSE OrderPassFrom_FullStep(cs, i + 1, order, needs)

\* "for concept in concepts" of one pass, from position i on, over the order
\* dict as the earlier concepts of the pass left it: a concept whose rank is
\* not above the highest rank of its referents is put half a rank above it.
\* Gives [order, needs]: the dict and needs_more_ordering after the pass.
RECURSIVE OrderPassFrom(_, _, _, _)
OrderPassFrom(cs, i, order, needs) ==
    IF i > Len(cs)
       THEN [order |-> order, needs |-> needs]
    ELSE LET referants == Referants(cs[i])
             ref_indices == {order[referants[j]] : j \in 1..Len(referants)}
         IN IF referants # <<>> /\ order[cs[i].key] <= Max(ref_indices)
               THEN OrderPassFrom(cs, i + 1,
                                  [order EXCEPT ![cs[i].key] = Max(ref_indices) + 1], TRUE)
               ELSE OrderPassFrom(cs, i + 1, order, needs)

\* Faulty variant of SortedConcepts: the concepts are looked up by rank, so
\* of the concepts that share a rank only the first is returned.
SortedConcepts_ByRank(cs, order) ==
    LET ranks == {order[k] : k \in DOMAIN order}
        first(k) == CHOOSE i \in 1..Len(cs) :
                        cs[i].key = k /\ \A j \in 1..(i - 1) : cs[j].key # k
        holder(r) == CHOOSE k \in DOMAIN order :
                        order[k] = r /\ \A j \in DOMAIN order :
                                            order[j] = r => first(k) <= first(j)
        nth(p) == CHOOSE r \in ranks : Cardinality({q \in ranks : q < r}) = p - 1
    IN [p \in 1..Cardinality(ranks) |-> ByName(cs)[holder(nth(p))]]

\* Faulty variant of SortedConcepts: the sort is not stable, keys of equal
\* rank come out in the reverse of the dict's order.
SortedConcepts_TiesReversed(cs, order) ==
    LET first(k) == CHOOSE i \in 1..Len(cs) :
                        cs[i].key = k /\ \A j \in 1..(i - 1) : cs[j].key # k
        before(j, k) == \/ order[j] < order[k]
                        \/ order[j] = order[k] /\ first(j) > first(k)
        place(k) == 1 + Cardinality({j \in DOMAIN order : before(j, k)})
    IN [p \in 1..Cardinality(DOMAIN order) |->
           ByName(cs)[CHOOSE k \in DOMAIN order : place(k) = p]]

\* sorted(concept_order.items(), key=lambda x: x[1]) and the list built from
\* it: the keys in ascending rank, keys of equal rank in the dict's order,
\* which is the order in which the keys first appear in concepts.
SortedConcepts(cs, order) ==
    LET first(k) == CHOOSE i \in 1..Len(cs) :
                        cs[i].key = k /\ \A j \in 1..(i - 1) : cs[j].key # k
        before(j, k) == \/ order[j] < order[k]
                        \/ order[j] = order[k] /\ first(j) < first(k)
        place(k) == 1 + Cardinality({j \in DOMAIN order : before(j, k)})
    IN [p \in 1..Cardinality(DOMAIN order) |->
           ByName(cs)[CHOOSE k \in DOMAIN order : place(k) = p]]

\* The positions of the concepts that list a referent concept_order has no
\* entry for: concept_order[r] raises KeyError at the first of them.
Unranked(cs, order) ==
    {i \in 1..Len(cs) : ~(Range(Referants(cs[i])) \subseteq DOMAIN order)}

\* One turn of "while needs_more_ordering": count goes up and the pass runs,
\* to its end or to the concept whose referent has no rank (KeyError).
OrderPass ==
    /\ pc = "order"
    /\ error = ""
    /\ needs_more_ordering
    /\ count < MaxPasses
    /\ LET bad == Unranked(order_concepts, concept_order)
           upto == IF bad = {} THEN Len(order_concepts)
                                ELSE (CHOOSE i \in bad : \A j \in bad : i <= j) - 1
           r == OrderPassFrom(SubSeq(order_concepts, 1, upto), 1, concept_order, FALSE)
       IN /\ concept_order' = r.order
          /\ needs_more_ordering' = r.needs
          /\ error' = IF bad = {} THEN error ELSE "KeyError"
    /\ count' = count + 1
    /\ UNCHANGED <<pc, all_concepts, set_name, excludes, outcomes, concepts, treeVars, detectVars,
                   order_concepts, outfile>>

\* The loop has ended: the concepts are returned in rank order and main
\* keeps them as its concepts.
OrderReturn ==
    /\ pc = "order"
    /\ error = ""
    /\ ~needs_more_ordering
    /\ concepts' = SortedConcepts(order_concepts, concept_order)
    /\ pc' = "exclude"
    /\ UNCHANGED <<all_concepts, set_name, excludes, outcomes, error, treeVars, detectVars, orderVars, outfile>>

\* The whole while loop, from the state (order, needs, n) on; it stops
\* following the loop after MaxPasses passes.
RECURSIVE OrderLoop(_, _, _, _)
OrderLoop(cs, order, needs, n) ==
    IF ~needs \/ n >= MaxPasses
       THEN [order |-> order, needs |-> needs, count |-> n]
       ELSE LET r == OrderPassFrom(cs, 1, order, FALSE)
            IN OrderLoop(cs, r.order, r.needs, n + 1)

\* move_referring_concepts_down(concepts, key) as a function of its argument.
move_referring_concepts_down(cs) ==
    SortedConcepts(cs, OrderLoop(cs, InitialOrder(cs), TRUE, 0).order)

\* ------------------------------------------------------- exclude and writing
\* Faulty variant of exclude: a concept that lists an excluded key as member
\* or answer goes as well.
exclude_WithReferrers(cs, excluded) ==
    SelectSeq(cs, LAMBDA c : c.key \notin excluded /\ Range(Referants(c)) \cap excluded = {})

\* Faulty variant of exclude: the excluded concepts are removed from the list
\* while a loop walks it by position, so the concept after a removed one is
\* passed over.
exclude_RemoveInLoop(cs, excluded) ==
    LET RECURSIVE walk(_, _)
        walk(l, i) ==
            IF i > Len(l)
               THEN l
            ELSE IF l[i].key \in excluded
               THEN walk(SubSeq(l, 1, i - 1) \o SubSeq(l, i + 1, Len(l)), i + 1)
            ELSE walk(l, i + 1)
    IN walk(cs, 1)

\* [c for c in concepts if c[key] not in excludes]
exclude(cs, excluded) == SelectSeq(cs, LAMBDA c : c.key \notin excluded)

\* main, lines 153-156, with exclude files: the keys their lines list (any
\* keys of the database, none when the files hold no line) are read and the
\* concepts with those keys are filtered out.
Exclude ==
    /\ pc = "exclude"
    /\ error = ""
    /\ excludes' \in SUBSET KeySet(all_concepts)
    /\ concepts' = exclude(concepts, excludes')
    /\ pc' = "write"
    /\ UNCHANGED <<all_concepts, set_name, outcomes, error, treeVars, detectVars, orderVars,
                   outfile>>

\* main, line 153, without exclude files.
NoExclude ==
    /\ pc = "exclude"
    /\ error = ""
    /\ pc' = "write"
    /\ UNCHANGED <<all_concepts, set_name, excludes, outcomes, concepts, error, treeVars, detectVars,
                   orderVars, outfile>>

\* Faulty variant of WriteOutfile: the file is written in a clean-up step that
\* also runs when a stage has raised.
WriteOutfile_Finally ==
    /\ pc = "write" \/ (error # "" /\ pc # "done")
    /\ outfile' = concepts
    /\ pc' = "done"
    /\ UNCHANGED <<all_concepts, set_name, excludes, outcomes, concepts, error, treeVars, detectVars, orderVars>>

\* main, lines 157-165: the output file is opened and the rows are written.
WriteOutfile ==
    /\ pc = "write"
    /\ error = ""
    /\ outfile' = concepts
    /\ pc' = "done"
    /\ UNCHANGED <<all_concepts, set_name, excludes, outcomes, concepts, error, treeVars, detectVars, orderVars>>

\* ------------------------------------------- the older script's main
\* concept_csv_export.py at the top of the source tree, main, lines 26-46: the
\* collection as loaded goes to move_referring_concepts_down as it is; there
\* is no set name, no cycle detection and no exclusion.  The script's
\* move_referring_concepts_down (lines 228-255) is, statement for statement,
\* the one OrderPass and SortedConcepts model.
LegacyInit == Init /\ set_name = ""

LegacyMain ==
    /\ pc = "main"
    /\ error = ""
    /\ pc' = "order"
    /\ order_concepts' = all_concepts
    /\ concept_order' = InitialOrder(all_concepts)
    /\ needs_more_ordering' = TRUE
    /\ count' = 0
    /\ UNCHANGED <<all_concepts, set_name, excludes, outcomes, concepts, error, treeVars, detectVars,
                   outfile>>

\* The loop has ended: the ordered concepts are printed and main is through.
LegacyOrderReturn ==
    /\ pc = "order"
    /\ error = ""
    /\ ~needs_more_ordering
    /\ concepts' = SortedConcepts(order_concepts, concept_order)
    /\ pc' = "done"
    /\ UNCHANGED <<all_concepts, set_name, excludes, outcomes, error, treeVars, detectVars, orderVars,
                   outfile>>

LegacyNext ==
    \/ LegacyMain
    \/ OrderPass
    \/ LegacyOrderReturn

LegacySpec == LegacyInit /\ [][LegacyNext]_vars

\* The older main over larger collections with fewer referent entries: every
\* collection of MaxWideRecords concepts that list at most MaxWideEdges
\* referent entries together, each entry the key of one of the concepts.
MaxWideRecords == 4
MaxWideEdges == 3

RECURSIVE WideReferantLists(_, _)
WideReferantLists(n, e) ==
    IF n = 0
       THEN {<<>>}
       ELSE UNION {{Append(rest, r) : rest \in WideReferantLists(n - 1, e - m),
                                       r \in [1..m -> Keys(MaxWideRecords)]} : m \in 0..e}

WideCollections ==
    {[i \in 1..MaxWideRecords |->
         [key |-> KeyNames[i],
          Members |-> SubSeq(f[i], 1, (Len(f[i]) + 1) \div 2),
          Answers |-> SubSeq(f[i], (Len(f[i]) + 1) \div 2 + 1, Len(f[i]))]] :
        f \in WideReferantLists(MaxWideRecords, MaxWideEdges)}

WideInit ==
    /\ all_concepts \in WideCollections
    /\ set_name = ""
    /\ pc = "main"
    /\ error = ""
    /\ concepts = <<>>
    /\ excludes = {}
    /\ concept_names_to_add = <<>>
    /\ concept_names_in_tree = {}
    /\ root_index = 1
    /\ visited = {}
    /\ this_branch = <<>>
    /\ cycle_strings = <<>>
    /\ order_concepts = <<>>
    /\ concept_order = <<>>
    /\ needs_more_ordering = FALSE
    /\ count = 0
    /\ outfile = <<>>
    /\ outcomes = <<>>

LegacyWideSpec == WideInit /\ [][LegacyNext]_vars

\* ------------------------------------------- detect_cycles, called twice
\* Calls of detect_cycles a caller makes in a row on one collection.
Repeats == 2

\* How the detect_cycles call in progress ends: with the KeyError of a
\* lookup, with the exception that carries the cycle strings, or returning.
Outcome ==
    IF error # ""
       THEN [error |-> error, cycle_strings |-> <<>>]
    ELSE IF cycle_strings # <<>>
       THEN [error |-> "Exception", cycle_strings |-> cycle_strings]
    ELSE [error |-> "", cycle_strings |-> <<>>]

\* The detect_cycles call in progress has raised or is through its roots.
CallEnded == pc = "detect" /\ (error # "" \/ root_index > Len(concepts))

\* A caller hands a loaded collection to detect_cycles.
RepeatInit ==
    /\ Init
    /\ set_name = ""
    /\ pc = "main"

RepeatStart ==
    /\ pc = "main"
    /\ pc' = "detect"
    /\ concepts' = all_concepts
    /\ UNCHANGED <<all_concepts, set_name, excludes, outcomes, error, treeVars, detectVars,
                   orderVars, outfile>>

\* Faulty variant of RepeatCall: get_cycle's default visited set and
\* this_branch list are made once and kept from call to call.
RepeatCall_SharedDefaults ==
    /\ CallEnded
    /\ Len(outcomes) + 1 < Repeats
    /\ outcomes' = Append(outcomes, Outcome)
    /\ root_index' = 1
    /\ cycle_strings' = <<>>
    /\ error' = ""
    /\ UNCHANGED <<pc, all_concepts, set_name, excludes, concepts, treeVars, visited,
                   this_branch, orderVars, outfile>>

\* The caller notes how the call ended and calls detect_cycles again: the def
\* statement at line 429 runs again and makes get_cycle with a new default
\* visited set and this_branch list, and cycle_strings is a new list.
RepeatCall ==
    /\ CallEnded
    /\ Len(outcomes) + 1 < Repeats
    /\ outcomes' = Append(outcomes, Outcome)
    /\ root_index' = 1
    /\ visited' = {}
    /\ this_branch' = <<>>
    /\ cycle_strings' = <<>>
    /\ error' = ""
    /\ UNCHANGED <<pc, all_concepts, set_name, excludes, concepts, treeVars, orderVars, outfile>>

\* The last call has ended.
RepeatEnd ==
    /\ CallEnded
    /\ Len(outcomes) + 1 = Repeats
    /\ outcomes' = Append(outcomes, Outcome)
    /\ pc' = "done"
    /\ UNCHANGED <<all_concepts, set_name, excludes, concepts, error, treeVars, detectVars,
                   orderVars, outfile>>

\* DetectRoot while a call is in progress (pc stays "detect" when it raises).
RepeatNext ==
    \/ RepeatStart
    \/ DetectRoot
    \/ RepeatCall
    \/ RepeatEnd

RepeatSpec == RepeatInit /\ [][RepeatNext]_vars

Next ==
    \/ MainStart
    \/ TreeStep
    \/ TreeReturn
    \/ DetectRoot
    \/ DetectEnd
    \/ OrderPass
    \/ OrderReturn
    \/ Exclude
    \/ NoExclude
    \/ WriteOutfile

Spec == Init /\ [][Next]_vars

\* The interpreter keeps running the orderer: a pass of its loop, or its
\* return, that can be taken is not put off for ever.
FairSpec == Spec /\ WF_vars(OrderPass) /\ WF_vars(OrderReturn)

\* The interpreter keeps running get_all_concepts_in_tree: an iteration of
\* its loop, or its return, that can be taken is not put off for ever.
TreeFairSpec == Spec /\ WF_vars(TreeStep) /\ WF_vars(TreeReturn)

\* ------------------------------------------------------ the reference graph
\* The keys a key's concept lists as members or answers (none for a key
\* without a concept).
Succ(cs, k) == IF k \in KeySet(cs) THEN Range(Referants(ByName(cs)[k])) ELSE {}

UniqueKeys(cs) == \A i, j \in 1..Len(cs) : cs[i].key = cs[j].key => i = j

\* Every listed referent has a concept in the collection.
Resolved(cs) == \A k \in KeySet(cs) : Succ(cs, k) \subseteq KeySet(cs)

\* The keys reachable from the keys of S along zero or more referent edges.
RECURSIVE ReachableFrom(_, _)
ReachableFrom(cs, S) ==
    LET T == S \cup UNION {Succ(cs, k) : k \in S}
    IN IF T = S THEN S ELSE ReachableFrom(cs, T)

\* The simple paths of the graph that have m keys.
RECURSIVE SimplePaths(_, _)
SimplePaths(cs, m) ==
    IF m = 1
       THEN {<<k>> : k \in KeySet(cs)}
       ELSE UNION {{Append(p, v) : v \in (Succ(cs, p[m - 1]) \cap KeySet(cs)) \ Range(p)} :
                      p \in SimplePaths(cs, m - 1)}

\* The simple cycles, each as the path k1 .. kn whose last key refers to the
\* first; a cycle of n keys is listed once for each of its n rotations.
SimpleCycles(cs) ==
    {p \in UNION {SimplePaths(cs, m) : m \in 1..Len(cs)} : p[1] \in Succ(cs, p[Len(p)])}

Rotations(p) ==
    {[i \in 1..Len(p) |-> p[((i + r - 1) % Len(p)) + 1]] : r \in 0..(Len(p) - 1)}

HasCycle(cs) == \E k \in KeySet(cs) : \E v \in Succ(cs, k) : k \in ReachableFrom(cs, {v})

Acyclic(cs) == ~HasCycle(cs)

\* Position of key k in the collection cs (keys are unique).
Position(cs, k) == CHOOSE i \in 1..Len(cs) : cs[i].key = k

\* ------------------------------------------------------------------ claims
\* main has just received the orderer's result for the argument order_concepts.
Ordered == pc = "exclude"

\* C1: for an acyclic collection with unique keys whose referents all
\* resolve, the order move_referring_concepts_down returns places the concept
\* of every key a concept lists in Members or Answers at a strictly smaller
\* position than that concept.
C1_ReferentsFirst ==
    (Ordered /\ Acyclic(order_concepts) /\ UniqueKeys(order_concepts)
             /\ Resolved(order_concepts))
        => \A i \in 1..Len(concepts) :
              \A k \in Range(Referants(concepts[i])) :
                 /\ k \in KeySet(concepts)
                 /\ Position(concepts, k) < i

\* The test suite's collection came back reordered, d and e before b and c
\* and those before a.
C1_Witness ==
    /\ Ordered
    /\ order_concepts = TestTree
    /\ concepts # order_concepts
    /\ Position(concepts, "d") < Position(concepts, "b")
    /\ Position(concepts, "c") < Position(concepts, "a")

\* C2: for an acyclic collection with unique keys, the returned list is a
\* permutation of the argument: the same length, each concept of the
\* argument exactly once.
C2_Permutation ==
    (Ordered /\ Acyclic(order_concepts) /\ UniqueKeys(order_concepts))
        => /\ Len(concepts) = Len(order_concepts)
           /\ \A i \in 1..Len(order_concepts) :
                 Cardinality({j \in 1..Len(concepts) : concepts[j] = order_concepts[i]}) = 1

\* An order had to change, with two concepts left at the same rank.
C2_Witness ==
    /\ Ordered
    /\ concepts # order_concepts
    /\ \E j, k \in DOMAIN concept_order : j # k /\ concept_order[j] = concept_order[k]

\* C3: the orderer is idempotent: applied to its own result it returns
\* exactly that result.
C3_Idempotent ==
    (Ordered /\ Acyclic(order_concepts))
        => /\ concepts = move_referring_concepts_down(order_concepts)
           /\ move_referring_concepts_down(concepts) = concepts

\* A result that took more than two passes and differs from the argument.
C3_Witness ==
    /\ Ordered
    /\ count > 2
    /\ concepts # order_concepts

\* C4: for an acyclic collection the repeat-passes loop of the orderer
\* eventually makes a full pass without a bump and the operation ends: once
\* the loop has been entered, the run reaches the orderer's return, the flag
\* down, at least one pass made and one more pass changing nothing.
C4_LoopTerminates ==
    (pc = "order" /\ Acyclic(order_concepts) /\ Resolved(order_concepts))
        ~> (/\ Ordered
            /\ ~needs_more_ordering
            /\ count >= 1
            /\ OrderPassFrom(order_concepts, 1, concept_order, FALSE) =
                  [order |-> concept_order, needs |-> FALSE])

\* The loop ended after a pass without a bump that followed passes with bumps.
C4_Witness ==
    /\ Ordered
    /\ ~needs_more_ordering
    /\ count >= 3
    /\ concept_order # InitialOrder(order_concepts)

\* detect_cycles has been through every root concept and has not raised yet.
RootsDone == pc = "detect" /\ error = "" /\ root_index > Len(concepts)

\* detect_cycles has raised the exception that lists cycle_strings.
CyclesRaised == pc = "detect" /\ error = "Exception"

\* The distinct simple cycles, each as the set of its rotations.
CycleClasses(cs) == {Rotations(p) : p \in SimpleCycles(cs)}

\* Two concepts list the same referent and a third lists both of them.
HasDiamond(cs) ==
    \E a, b, c, d \in KeySet(cs) :
        /\ b # c
        /\ {b, c} \subseteq Succ(cs, a)
        /\ d \in Succ(cs, b) \cap Succ(cs, c)

\* C5: for a collection whose reference graph is a DAG (referents resolved),
\* detect_cycles collects no cycle string and does not fail, whatever the
\* order of the concepts and with shared referents (diamonds) included.
C5_NoFalseCycle ==
    (pc = "detect" /\ Acyclic(concepts) /\ Resolved(concepts))
        => (cycle_strings = <<>> /\ error = "")

\* A diamond, in another order than the written one, went through every root
\* without a cycle string.
C5_Witness ==
    /\ RootsDone
    /\ HasDiamond(concepts)
    /\ concepts[1].key # "a"
    /\ cycle_strings = <<>>

\* C6: for a collection whose reference graph has a cycle of any length, a
\* self-reference included, detect_cycles has collected at least one cycle
\* string when it is through the roots, whatever their order, so it fails
\* and the run never goes on to the orderer.
C6_CycleReported ==
    /\ (RootsDone /\ HasCycle(concepts)) => cycle_strings # <<>>
    /\ pc \in {"order", "exclude", "write", "done"} => Acyclic(order_concepts)

\* A concept that lists its own key, not the first of the collection, made
\* detect_cycles fail.
C6_Witness ==
    /\ CyclesRaised
    /\ Len(concepts) > 1
    /\ Cardinality(CycleClasses(concepts)) = 1
    /\ \E i \in 2..Len(concepts) : concepts[i].key \in Succ(concepts, concepts[i].key)

\* C7: when the reference graph has exactly one simple cycle, detect_cycles
\* reports exactly one cycle string, however many roots reach the cycle or
\* lie on it.
C7_OneCycleOnce ==
    (RootsDone /\ Cardinality(CycleClasses(concepts)) = 1)
        => Len(cycle_strings) = 1

\* C8 as claimed: when detect_cycles fails, for each simple cycle of the
\* graph some listed cycle string contains the cycle's keys in referent
\* order (k1 --> ... --> kn for one of its rotations).
C8_EveryCycleListed ==
    CyclesRaised
        => \A c \in CycleClasses(concepts) :
              \E n \in 1..Len(cycle_strings) :
                 \E q \in c : IsSubstring(Join(q), cycle_strings[n])

\* C8 as amended: when the graph has cycles detect_cycles fails once, with
\* the one message that lists every collected cycle string, and for each
\* simple cycle some listed cycle string contains every key of the cycle
\* (not always next to each other or in referent order).
C8_CycleKeysListed ==
    /\ (RootsDone /\ HasCycle(concepts)) => cycle_strings # <<>>
    /\ (RootsDone \/ CyclesRaised)
          => \A c \in CycleClasses(concepts) :
                \E n \in 1..Len(cycle_strings) :
                   \A q \in c : Range(q) \subseteq Range(cycle_strings[n])

\* detect_cycles failed on a graph with several distinct cycles.
C8_Witness ==
    /\ CyclesRaised
    /\ Cardinality(CycleClasses(concepts)) >= 3
    /\ Len(cycle_strings) >= 2

\* get_all_concepts_in_tree has returned to main, which was given a set_name.
TreeReturned == pc = "detect" /\ set_name # ""

\* C9: for a root key that is in the collection, the result of
\* get_all_concepts_in_tree holds the root's concept and is closed under
\* referents: no concept of the result lists a key whose concept is outside.
C9_TreeClosed ==
    (TreeReturned /\ set_name \in KeySet(all_concepts))
        => /\ ByName(all_concepts)[set_name] \in Range(concepts)
           /\ \A i \in 1..Len(concepts) : Succ(concepts, concepts[i].key) \subseteq KeySet(concepts)

\* A tree that is a proper part of the collection, holds a cycle and a
\* concept with two referents.
C9_Witness ==
    /\ TreeReturned
    /\ Len(concepts) < Len(all_concepts)
    /\ Len(concepts) >= 2
    /\ HasCycle(concepts)
    /\ \E i \in 1..Len(concepts) : Cardinality(Succ(concepts, concepts[i].key)) >= 2

\* C10: the result holds no concept that cannot be reached from the root:
\* its keys are exactly the keys reachable from the root along zero or more
\* referent edges, each with its concept of the collection, once.
C10_TreeExact ==
    TreeReturned
        => /\ KeySet(concepts) = ReachableFrom(all_concepts, {set_name})
           /\ UniqueKeys(concepts)
           /\ \A i \in 1..Len(concepts) : concepts[i] = ByName(all_concepts)[concepts[i].key]

\* The test suite's collection and root b: the tree is b, d and e.
C10_Witness ==
    /\ TreeReturned
    /\ all_concepts = TestTree
    /\ set_name = "b"
    /\ KeySet(concepts) = {"b", "d", "e"}
    /\ Len(concepts) < Len(all_concepts)

\* Some key reachable from the root has no concept in the collection.
DanglingInTree ==
    /\ set_name \in KeySet(all_concepts)
    /\ ~(ReachableFrom(all_concepts, {set_name}) \subseteq KeySet(all_concepts))

\* C11: when a concept reachable from the root lists a key that has no
\* concept in the collection, get_all_concepts_in_tree never returns: main
\* never receives a subset, and the loop cannot run out of names without
\* having raised KeyError, which happens when the missing key is taken off
\* the queue, never later.
C11_MissingKeyFatal ==
    /\ DanglingInTree
          => /\ pc \in {"main", "tree"}
             /\ concepts = <<>>
             /\ (pc = "tree" /\ concept_names_to_add = <<>>) => error = "KeyError"
    /\ (pc = "tree" /\ error = "")
          => concept_names_in_tree \subseteq KeySet(all_concepts)

\* The lookup failed on a referent of a referent of the root: two concepts
\* had been taken into the tree before it.
C11_Witness ==
    /\ DanglingInTree
    /\ pc = "tree"
    /\ error = "KeyError"
    /\ Cardinality(concept_names_in_tree \cap KeySet(all_concepts)) >= 2
    /\ concepts = <<>>

\* main is past the exclude step (taken with or without exclude files).
Excluded == pc \in {"write", "done"}

\* What move_referring_concepts_down returned: the list exclude was given.
OrderedConcepts == SortedConcepts(order_concepts, concept_order)

\* The n-th smallest element of a set of numbers.
Nth(S, n) == CHOOSE x \in S : Cardinality({y \in S : y < x}) = n - 1

\* C12: exclude returns exactly the concepts whose key is not among the
\* excluded keys, each once and in the relative order they had in its
\* argument, also when a concept that stays lists an excluded key as member
\* or answer.
C12_ExcludeExact ==
    Excluded
        => LET kept == {i \in 1..Len(OrderedConcepts) :
                           OrderedConcepts[i].key \notin excludes}
           IN /\ Len(concepts) = Cardinality(kept)
              /\ \A n \in 1..Len(concepts) : concepts[n] = OrderedConcepts[Nth(kept, n)]

\* Two concepts stayed, one of them listing a key that was excluded, and an
\* excluded key stood between them in the argument.
C12_Witness ==
    /\ pc = "write"
    /\ Len(concepts) >= 2
    /\ \E i \in 1..Len(concepts) : Succ(concepts, concepts[i].key) \cap excludes # {}
    /\ \E i, j, k \in 1..Len(OrderedConcepts) :
          /\ i < j /\ j < k
          /\ OrderedConcepts[j].key \in excludes
          /\ {OrderedConcepts[i].key, OrderedConcepts[k].key} \cap excludes = {}

\* C13: excluding the same keys from the result of exclude changes nothing,
\* and exclude with no key returns its argument as it is.
C13_ExcludeIdempotent ==
    Excluded
        => /\ exclude(concepts, excludes) = concepts
           /\ exclude(concepts, {}) = concepts
           /\ exclude(OrderedConcepts, {}) = OrderedConcepts
           /\ excludes = {} => concepts = OrderedConcepts

\* Two concepts next to each other were excluded and others stayed.
C13_Witness ==
    /\ pc = "write"
    /\ concepts # <<>>
    /\ \E i \in 1..(Len(OrderedConcepts) - 1) :
          {OrderedConcepts[i].key, OrderedConcepts[i + 1].key} \subseteq excludes

\* The orderer has been started.
OrdererStarted == pc \in {"order", "exclude", "write", "done"}

\* C14: in every run of a main, move_referring_concepts_down is started only
\* after detect_cycles went through every concept of the same collection and
\* collected no cycle string, and once detect_cycles has raised the orderer
\* is never started.
C14_DetectBeforeOrder ==
    /\ OrdererStarted
          => /\ root_index > Len(order_concepts)
             /\ visited = KeySet(order_concepts)
             /\ cycle_strings = <<>>
             /\ Acyclic(order_concepts)
    /\ CyclesRaised
          => /\ order_concepts = <<>>
             /\ count = 0

\* C18: on a collection whose reference graph has a cycle (a concept that
\* lists itself included) move_referring_concepts_down never returns: every
\* pass made has bumped a concept, so the loop flag is up after it, and the
\* pass to come bumps one as well.
C18_CyclicNeverEnds ==
    (pc # "main" /\ HasCycle(order_concepts) /\ Resolved(order_concepts))
        => /\ pc = "order"
           /\ error = ""
           /\ needs_more_ordering
           /\ OrderPassFrom(order_concepts, 1, concept_order, FALSE).needs

\* The loop is still going after MaxPasses passes, over a cycle of two or
\* more concepts next to a concept outside it.
C18_Witness ==
    /\ pc = "order"
    /\ count = MaxPasses
    /\ needs_more_ordering
    /\ Resolved(order_concepts)
    /\ \E p \in SimpleCycles(order_concepts) : Len(p) >= 2
    /\ \E k \in KeySet(order_concepts) : k \notin ReachableFrom(order_concepts, Succ(order_concepts, k))

\* The output file has been opened and written.
Written == pc = "done"

\* C15: when subgraph extraction, cycle detection, ordering or exclusion has
\* raised (KeyError for a root or referent without a concept, the exception
\* that lists the cycles), the run stays where it was raised and the output
\* file is never opened or written; a written file means every stage before
\* it came to its end without an error.
C15_NoOutputAfterError ==
    /\ error # "" => (pc \in {"tree", "detect", "order"} /\ outfile = <<>>)
    /\ error = "Exception" => (pc = "detect" /\ cycle_strings # <<>>)
    /\ outfile # <<>> => Written
    /\ Written
          => /\ error = ""
             /\ set_name # "" => KeySet(order_concepts) = ReachableFrom(all_concepts, {set_name})
             /\ root_index > Len(order_concepts)
             /\ cycle_strings = <<>>
             /\ ~needs_more_ordering
             /\ outfile = exclude(OrderedConcepts, excludes)

\* The tree of a root was extracted, detect_cycles raised on it and nothing
\* was written.
C15_Witness ==
    /\ CyclesRaised
    /\ set_name # ""
    /\ Len(concepts) >= 2
    /\ Len(concepts) < Len(all_concepts)
    /\ outfile = <<>>

KeysOf(cycle_string) ==
    [i \in 1..((Len(cycle_string) + 1) \div 2) |-> cycle_string[2 * i - 1]]

\* C17: every cycle string detect_cycles collects is a cycle of the graph
\* written from the key met again to that same key: its first and last key
\* are the same and the keys before the last are a simple cycle, so no key
\* of the path that led to the cycle is in it.
C17_CycleFromFirstOccurrence ==
    pc = "detect"
        => \A n \in 1..Len(cycle_strings) :
              LET cycle == KeysOf(cycle_strings[n])
              IN /\ Len(cycle) >= 2
                 /\ cycle[1] = cycle[Len(cycle)]
                 /\ SubSeq(cycle, 1, Len(cycle) - 1) \in SimpleCycles(concepts)

\* C20: this_branch is the stack of the get_cycle calls in progress: between
\* two root concepts no call is in progress, so it is empty whenever the
\* traversal from the next root begins, also after an earlier root gave a
\* cycle.
C20_BranchIsStack ==
    (pc = "detect" /\ error = "" /\ root_index <= Len(concepts)) => this_branch = <<>>

\* The number of edges on the longest referent chain of an acyclic graph.
LongestChain(cs) ==
    Max({m \in 1..Len(cs) : SimplePaths(cs, m) # {}}) - 1

\* C19: for an acyclic collection the passes move_referring_concepts_down
\* makes, the last one without a bump included, are at most one more than
\* the edges on the longest referent chain, however many concepts there are
\* and in whatever order.
C19_PassBound ==
    (pc = "order" \/ Ordered) /\ Acyclic(order_concepts) /\ Resolved(order_concepts)
        => /\ count <= LongestChain(order_concepts) + 1
           /\ Ordered => count >= 1

\* A chain of two edges, among concepts outside it or in an order that made
\* a bump necessary, took the three passes the bound allows.
C19_Witness ==
    /\ Ordered
    /\ LongestChain(order_concepts) = 2
    /\ count = 3
    /\ concepts # order_concepts

\* move_referring_concepts_down is in its loop or has returned.
InOrderer == order_concepts # <<>> /\ pc \in {"order", "exclude", "write", "done"}

\* The loop of move_referring_concepts_down has ended without an error.
LoopEnded == InOrderer /\ error = "" /\ ~needs_more_ordering

\* The concept of key k has been bumped: ranks only go up, so its rank is no
\* longer the index it started with.
Bumped(k) == concept_order[k] # InitialOrder(order_concepts)[k]

LegacyReturned == pc = "done" /\ error = "" /\ order_concepts # <<>>

\* The rank of the concept at position i of the returned list.
RankAt(i) == concept_order[concepts[i].key]

\* C22: the list move_referring_concepts_down returns holds the concepts of
\* its argument in ascending order of final rank, and two concepts of equal
\* final rank in the order they had in the argument.
C22_StableByRank ==
    LegacyReturned
        => /\ Len(concepts) = Len(order_concepts)
           /\ \A i, j \in 1..Len(concepts) :
                 i < j => /\ RankAt(i) <= RankAt(j)
                          /\ RankAt(i) = RankAt(j)
                                => Position(order_concepts, concepts[i].key)
                                      < Position(order_concepts, concepts[j].key)

\* A returned list that differs from the argument, with a bumped concept and
\* a never bumped one at one rank.
C22_Witness ==
    /\ LegacyReturned
    /\ concepts # order_concepts
    /\ \E i \in 1..(Len(concepts) - 1) :
          /\ RankAt(i) = RankAt(i + 1)
          /\ Bumped(concepts[i].key)
          /\ ~Bumped(concepts[i + 1].key)

\* Every concept of cs stands after all the concepts it lists.
AlreadyOrdered(cs) ==
    \A i \in 1..Len(cs) : \A k \in Succ(cs, cs[i].key) :
        k \in KeySet(cs) /\ Position(cs, k) < i

\* C23: when every referent already stands before the concepts that list it,
\* move_referring_concepts_down makes one pass, bumps nothing (every rank is
\* still the index) and returns the concepts in the order of its argument.
C23_OrderedInputKept ==
    (InOrderer /\ AlreadyOrdered(order_concepts))
        => /\ \A k \in DOMAIN concept_order :
                 concept_order[k] = 2 * (Position(order_concepts, k) - 1)
           /\ count <= 1
           /\ count = 1 => ~needs_more_ordering
           /\ LegacyReturned => (count = 1 /\ concepts = order_concepts)

\* An ordered argument with a chain of two referent edges was returned.
C23_Witness ==
    /\ LegacyReturned
    /\ AlreadyOrdered(order_concepts)
    /\ count = 1
    /\ \E p \in SimplePaths(order_concepts, 3) : TRUE

\* The highest rank among the referents of key k (k lists at least one).
MaxReferentRank(k) == Max({concept_order[r] : r \in Succ(order_concepts, k)})

\* C26: when the loop has ended, the rank of a concept without referents is
\* its index, and the rank of any other concept is either its index, above
\* the ranks of all its referents, or the highest rank of its referents + 0.5.
C26_FinalRanks ==
    (LoopEnded /\ Resolved(order_concepts))
        => \A k \in DOMAIN concept_order :
              LET index == 2 * (Position(order_concepts, k) - 1)
              IN IF Succ(order_concepts, k) = {}
                    THEN concept_order[k] = index
                    ELSE \/ concept_order[k] = index /\ index > MaxReferentRank(k)
                         \/ concept_order[k] = MaxReferentRank(k) + 1

\* The loop ended with a concept bumped twice, a concept that kept its index
\* above its referents and a concept without referents.
C26_Witness ==
    /\ LoopEnded
    /\ count >= 3
    /\ \E k \in DOMAIN concept_order :
          /\ Succ(order_concepts, k) # {}
          /\ ~Bumped(k)
    /\ \E k \in DOMAIN concept_order :
          /\ Bumped(k)
          /\ concept_order[k] = MaxReferentRank(k) + 1
          /\ concept_order[k] % 2 = 0

\* The root has a concept and every key reachable from it has one.
TreeResolved ==
    /\ set_name \in KeySet(all_concepts)
    /\ ReachableFrom(all_concepts, {set_name}) \subseteq KeySet(all_concepts)

\* No concept lists the same key twice in its Members and Answers.
ListsOnce(cs) ==
    \A n \in 1..Len(cs) : \A i, j \in 1..Len(Referants(cs[n])) :
        Referants(cs[n])[i] = Referants(cs[n])[j] => i = j

\* C24: while get_all_concepts_in_tree runs, no name is put on the queue
\* twice and no concept is processed twice, shared referents included: the
\* queue never holds a name more than once nor a name that is already in the
\* tree (for a collection whose keys resolve and whose concepts list each
\* referent once).
C24_QueuedOnce ==
    (pc = "tree" /\ error = "" /\ TreeResolved /\ ListsOnce(all_concepts))
        => /\ \A i, j \in 1..Len(concept_names_to_add) :
                 concept_names_to_add[i] = concept_names_to_add[j] => i = j
           /\ Range(concept_names_to_add) \cap concept_names_in_tree = {}

\* C25: when the root and every key reachable from it have a concept,
\* get_all_concepts_in_tree comes to its return, cycles and concepts that
\* list themselves among the reachable concepts included.
C25_TreeTerminates ==
    (pc = "tree" /\ TreeResolved) ~> (TreeReturned /\ concept_names_to_add = <<>>)

\* The tree of a root was returned with a cycle of two or more concepts and
\* a concept that lists itself in it.
C25_Witness ==
    /\ TreeReturned
    /\ root_index = 1
    /\ \E p \in SimpleCycles(concepts) : Len(p) >= 2
    /\ \E k \in KeySet(concepts) : k \in Succ(concepts, k)

\* A concept reachable from the root lies on a cycle of the collection.
CycleInTree ==
    \E k \in ReachableFrom(all_concepts, {set_name}) :
        \E v \in Succ(all_concepts, k) : k \in ReachableFrom(all_concepts, {v})

\* C27: with a root name, detect_cycles is given the extracted tree only: it
\* raises only when a concept reachable from the root lies on a cycle, so a
\* cycle among the other concepts never ends the run, and a run whose tree
\* holds a cycle never gets past detect_cycles.
C27_CyclesOfTreeOnly ==
    set_name # ""
        => /\ pc = "detect" => KeySet(concepts) = ReachableFrom(all_concepts, {set_name})
           /\ CyclesRaised => CycleInTree
           /\ (RootsDone /\ CycleInTree) => cycle_strings # <<>>
           /\ OrdererStarted => ~CycleInTree

\* A run with a root name and a tree of two or more concepts wrote its file
\* although the collection has a cycle (among concepts outside the tree).
C27_Witness ==
    /\ Written
    /\ set_name # ""
    /\ HasCycle(all_concepts)
    /\ Len(order_concepts) >= 2
    /\ outfile # <<>>

====
